---- MODULE Spec2Model ----
(***************************************************************************)
(* vscode_open: one invocation of main (src/vscode_open/__main__.py).      *)
(*                                                                         *)
(* Text is modelled as a sequence of tokens.  A token is either a single   *)
(* character (" ", "(", ")", "|", "\n", "a", "b") or a literal word of the *)
(* source that no other token overlaps ("Window", "Workspace Stats:",      *)
(* "Welcome").  Substring tests, the regular expression, str.strip,        *)
(* str.splitlines, str.lower and sorted are computed on these sequences as *)
(* Python computes them on the characters.                                 *)
(***************************************************************************)
EXTENDS Integers, Sequences, FiniteSets, TLC

VARIABLES
    pc,                     \* position in main / find_reusable_window_from_status
    files_to_open,          \* main's argument (tuple of resolved paths)
    window_list,            \* environment: what CGWindowListCopyWindowInfo answers
    code_status,            \* environment: what `code --status` prints when it runs
    running,                \* result of is_vscode_running()
    status_output,          \* find_reusable_window_from_status local
    retcode,                \* find_reusable_window_from_status local (-1: not assigned)
    all_window_titles,      \* find_reusable_window_from_status local
    workspace_titles,       \* find_reusable_window_from_status local
    workspace_title_set,    \* find_reusable_window_from_status local
    title,                  \* loop variable of the classifying loop
    reusable_window_exists, \* main local
    calls,                  \* external invocations made so far, in order
    printed,                \* lines written to standard output, in order
    crash,                  \* "none" or the uncaught exception that ended the run
    exit_code               \* process exit code (-1 while running)

vars == << pc, files_to_open, window_list, code_status, running, status_output,
           retcode, all_window_titles, workspace_titles, workspace_title_set,
           title, reusable_window_exists, calls, printed, crash, exit_code >>

----------------------------------------------------------------------------
(* Bounds of the model *)

MaxFiles == 2
MaxLines == 2
MaxWindows == 2
MaxStatusLines == 3
MaxScreen == 2
MaxWorkspaces == 2
MaxProcs == 2

----------------------------------------------------------------------------
(* Generic helpers *)

SeqsUpTo(S, n) == UNION { [1..k -> S] : k \in 0..n }

Range(s) == { s[i] : i \in 1..Len(s) }

RECURSIVE Concat(_)
Concat(ss) == IF ss = << >> THEN << >> ELSE Head(ss) \o Concat(Tail(ss))

\* Python `sub in s` for strings
Contains(s, sub) ==
    \E i \in 1..(Len(s) - Len(sub) + 1) : SubSeq(s, i, i + Len(sub) - 1) = sub

IsSpace(c) == c \in {" ", "\n"}

\* str.strip()
RECURSIVE LStrip(_)
LStrip(s) == IF s /= << >> /\ IsSpace(Head(s)) THEN LStrip(Tail(s)) ELSE s

RECURSIVE RStrip(_)
RStrip(s) ==
    IF s /= << >> /\ IsSpace(s[Len(s)]) THEN RStrip(SubSeq(s, 1, Len(s) - 1)) ELSE s

Strip(s) == RStrip(LStrip(s))

\* str.lower(), on the characters that occur in owner names
LowerChar(c) ==
    CASE c = "C" -> "c"
      [] c = "O" -> "o"
      [] c = "D" -> "d"
      [] c = "E" -> "e"
      [] c = "F" -> "f"
      [] c = "X" -> "x"
      [] OTHER -> c

Lower(s) == [i \in 1..Len(s) |-> LowerChar(s[i])]

\* Code point order of the tokens (by their first differing character)
Rank(c) ==
    CASE c = "\n" -> 0
      [] c = " " -> 1
      [] c = "(" -> 2
      [] c = ")" -> 3
      [] c = "Welcome" -> 4
      [] c = "Window" -> 5
      [] c = "Workspace Stats:" -> 6
      [] c = "a" -> 7
      [] c = "b" -> 8
      [] c = "|" -> 9

\* Python's str <= str
RECURSIVE StrLE(_, _)
StrLE(s, t) ==
    IF s = << >> THEN TRUE
    ELSE IF t = << >> THEN FALSE
    ELSE IF Rank(Head(s)) < Rank(Head(t)) THEN TRUE
    ELSE IF Rank(Head(s)) > Rank(Head(t)) THEN FALSE
    ELSE StrLE(Tail(s), Tail(t))

\* sorted(list of str): stable insertion of each element in turn
RECURSIVE InsertSorted(_, _)
InsertSorted(x, s) ==
    IF s = << >> THEN << x >>
    ELSE IF StrLE(Head(s), x) THEN << Head(s) >> \o InsertSorted(x, Tail(s))
    ELSE << x >> \o s

RECURSIVE Sorted(_)
Sorted(s) ==
    IF s = << >> THEN << >>
    ELSE InsertSorted(s[Len(s)], Sorted(SubSeq(s, 1, Len(s) - 1)))

\* str.splitlines()
RECURSIVE SplitFrom(_, _, _)
SplitFrom(text, cur, acc) ==
    IF text = << >> THEN (IF cur = << >> THEN acc ELSE Append(acc, cur))
    ELSE IF Head(text) = "\n" THEN SplitFrom(Tail(text), << >>, Append(acc, cur))
    ELSE SplitFrom(Tail(text), Append(cur, Head(text)), acc)

SplitLines(text) == SplitFrom(text, << >>, << >>)

----------------------------------------------------------------------------
(* The status parser *)

Marker == << "Workspace Stats:" >>

Welcome == << "Welcome" >>

\* re.compile(r"\|\s+Window \((.*)\)").search(line): the leftmost "|" that is
\* followed by one or more blanks, "Window", one space, "(" and, later in the
\* line, a ")"; the group runs up to the last ")" of the line.
MatchStarts(line) ==
    { i \in 1..Len(line) :
        /\ line[i] = "|"
        /\ \E j \in (i + 2)..(Len(line) - 3) :
              /\ \A k \in (i + 1)..(j - 1) : IsSpace(line[k])
              /\ line[j] = "Window"
              /\ line[j + 1] = " "
              /\ line[j + 2] = "("
              /\ \E p \in (j + 3)..Len(line) : line[p] = ")" }

Min(S) == CHOOSE x \in S : \A y \in S : x <= y

Max(S) == CHOOSE x \in S : \A y \in S : x >= y

PatternSearch(line) ==
    IF MatchStarts(line) = {} THEN [matched |-> FALSE, group |-> << >>]
    ELSE LET i == Min(MatchStarts(line))
             j == Min({ k \in (i + 1)..Len(line) : ~IsSpace(line[k]) })
             p == Max({ k \in (j + 3)..Len(line) : line[k] = ")" })
         IN  [matched |-> TRUE, group |-> SubSeq(line, j + 3, p - 1)]

\* the loop over status_output.splitlines()
RECURSIVE ParseLines(_, _, _)
ParseLines(lines, in_workspace_stats_section, acc) ==
    IF lines = << >> THEN acc
    ELSE LET line == Head(lines)
             m == PatternSearch(line)
         IN  IF Contains(line, Marker)
             THEN ParseLines(Tail(lines), TRUE, acc)
             ELSE IF in_workspace_stats_section /\ m.matched
             THEN ParseLines(Tail(lines), in_workspace_stats_section,
                             Append(acc, Strip(m.group)))
             ELSE ParseLines(Tail(lines), in_workspace_stats_section, acc)

ParseWorkspaceTitles(text) == ParseLines(SplitLines(text), FALSE, << >>)

----------------------------------------------------------------------------
(* The window enumerator, the classifier and the process scan *)

AppName == << "c", "o", "d", "e" >>

TargetPattern == << "Visual Studio Code.app" >>

NotAList == [is_list |-> FALSE, items |-> << >>]

\* the filter of get_vscode_window_names_cg
IsVscodeWindow(win) == Contains(Lower(win.owner), AppName)

\* window.get("kCGWindowName", "").strip()
WindowName(win) == Strip(IF win.has_name THEN win.name ELSE << >>)

get_vscode_window_names_cg(wl) ==
    LET vscode_windows == SelectSeq(wl, IsVscodeWindow)
    IN  IF vscode_windows = << >> THEN NotAList
        ELSE [is_list |-> TRUE,
              items |-> [i \in 1..Len(vscode_windows) |-> WindowName(vscode_windows[i])]]

\* mutant: the loop without the test for the "Welcome" title
RECURSIVE FindReusable_NoWelcomeCheck(_, _, _)
FindReusable_NoWelcomeCheck(titles, ws_set, last) ==
    IF titles = << >> THEN [found |-> FALSE, title |-> last]
    ELSE IF Head(titles) \notin ws_set THEN [found |-> TRUE, title |-> Head(titles)]
    ELSE FindReusable_NoWelcomeCheck(Tail(titles), ws_set, Head(titles))

\* mutant: the loop without the lookup in workspace_title_set
RECURSIVE FindReusable_NoWorkspaceCheck(_, _, _)
FindReusable_NoWorkspaceCheck(titles, ws_set, last) ==
    IF titles = << >> THEN [found |-> FALSE, title |-> last]
    ELSE IF Head(titles) = Welcome
    THEN FindReusable_NoWorkspaceCheck(Tail(titles), ws_set, Head(titles))
    ELSE [found |-> TRUE, title |-> Head(titles)]

\* the loop `for title in all_window_titles`: the result, and the value the
\* loop variable is left with (last: its value before the loop)
RECURSIVE FindReusable(_, _, _)
FindReusable(titles, ws_set, last) ==
    IF titles = << >> THEN [found |-> FALSE, title |-> last]
    ELSE IF Head(titles) = Welcome THEN FindReusable(Tail(titles), ws_set, Head(titles))
    ELSE IF Head(titles) \notin ws_set THEN [found |-> TRUE, title |-> Head(titles)]
    ELSE FindReusable(Tail(titles), ws_set, Head(titles))

\* is_vscode_running over the process table
is_vscode_running(procs) ==
    \E i \in 1..Len(procs) :
        /\ procs[i].has_cmdline
        /\ procs[i].cmdline /= << >>
        /\ \E k \in 1..Len(procs[i].cmdline) :
              Contains(procs[i].cmdline[k], TargetPattern)

----------------------------------------------------------------------------
(* Inputs *)

Paths == { "/a", "/b" }

FileTuples == SeqsUpTo(Paths, MaxFiles)

Win(owner, has_name, name) == [owner |-> owner, has_name |-> has_name, name |-> name]

OwnerCode == << "C", "o", "d", "e" >>

OwnerHelper == << "C", "o", "d", "e", " ", "H" >>

OwnerXcode == << "X", "c", "o", "d", "e" >>

OwnerFinder == << "F", "i", "n", "d", "e", "r" >>

\* the windows of the main specification
MainWindows ==
    { Win(OwnerCode, TRUE, << "a" >>),
      Win(OwnerCode, TRUE, Welcome),
      Win(OwnerFinder, TRUE, << "b" >>) }

\* the windows of the classifier specification
ScreenWindows ==
    { Win(OwnerCode, TRUE, << "a" >>),
      Win(OwnerCode, TRUE, << " ", "b", " " >>),
      Win(OwnerHelper, TRUE, Welcome),
      Win(OwnerXcode, FALSE, << >>),
      Win(OwnerFinder, TRUE, << "a" >>) }

Titles == { << "a" >>, << "b" >>, Welcome }

WindowLine(t) == << "|", " ", " ", "Window", " ", "(" >> \o t \o << ")" >>

\* the lines of the main specification
MainLines == { Marker, WindowLine(<< "a" >>), WindowLine(Welcome) }

\* the lines of the parser specification
SampleLines ==
    { Marker,
      << "Workspace Stats:", " " >>,
      WindowLine(<< "a" >>),
      << "|", " ", "Window", " ", "(", " ", "b", " ", ")" >>,
      << "|", " ", "Window", " ", "(", "a", " ", "(", "b", ")", ")", " " >>,
      << "|", "Window", " ", "(", "a", ")" >>,
      << "|", " ", "Window", " ", "(", "Workspace Stats:", "a", ")" >>,
      << >> }

JoinLines(ls) == Concat([i \in 1..Len(ls) |-> ls[i] \o << "\n" >>])

StatusTexts(lines, n) == { JoinLines(ls) : ls \in SeqsUpTo(lines, n) }

\* a status report that declares exactly the workspace windows ws
StatusFor(ws) == JoinLines(<< Marker >> \o [i \in 1..Len(ws) |-> WindowLine(ws[i])])

Proc(has_cmdline, cmdline) == [has_cmdline |-> has_cmdline, cmdline |-> cmdline]

Procs ==
    { Proc(FALSE, << >>),
      Proc(TRUE, << >>),
      Proc(TRUE, << << "/", "x" >> >>),
      Proc(TRUE, << << "x" >>, << "/", "Visual Studio Code.app", "/", "x" >> >>) }

ProcTables == SeqsUpTo(Procs, MaxProcs)

----------------------------------------------------------------------------
(* The run *)

Call(cmd, flag, files, result) ==
    [cmd |-> cmd, flag |-> flag, files |-> files, result |-> result]

Terminal == { "NOT_RUNNING_EXIT", "QUERY_ONLY_EXIT", "LAUNCH_REUSE", "LAUNCH_NEW" }

InitRun ==
    /\ pc = "main"
    /\ running = FALSE
    /\ status_output = << >>
    /\ retcode = -1
    /\ all_window_titles = NotAList
    /\ workspace_titles = << >>
    /\ workspace_title_set = {}
    /\ title = << >>
    /\ reusable_window_exists = FALSE
    /\ calls = << >>
    /\ printed = << >>
    /\ crash = "none"
    /\ exit_code = -1

Init ==
    /\ InitRun
    /\ files_to_open \in FileTuples
    /\ window_list \in SeqsUpTo(MainWindows, MaxWindows)
    /\ code_status \in StatusTexts(MainLines, MaxLines)

InitParse ==
    /\ InitRun
    /\ files_to_open \in { << >>, << "/a" >> }
    /\ window_list \in { << Win(OwnerCode, TRUE, << "a" >>) >>,
                         << Win(OwnerCode, TRUE, << "b" >>) >> }
    /\ code_status \in StatusTexts(SampleLines, MaxStatusLines)

InitClassify ==
    /\ InitRun
    /\ files_to_open \in { << >>, << "/a" >> }
    /\ window_list \in SeqsUpTo(ScreenWindows, MaxScreen)
    /\ code_status \in { StatusFor(ws) : ws \in SeqsUpTo(Titles, MaxWorkspaces) }

Env == << files_to_open, window_list, code_status >>

\* subprocess.run(["code", flag, *files_to_open], check=False); sys.exit(0).
\* The return code is dropped; an executable that is not found raises.
Launch(flag, done) ==
    \E outcome \in { "exit 0", "exit 1", "not found" } :
        /\ calls' = Append(calls, Call("code", flag, files_to_open, outcome))
        /\ IF outcome = "not found"
           THEN /\ pc' = "crashed"
                /\ crash' = "FileNotFoundError"
                /\ exit_code' = 1
           ELSE /\ pc' = done
                /\ crash' = crash
                /\ exit_code' = 0

\* main, line 211
CheckRunning ==
    /\ pc = "main"
    /\ \E procs \in ProcTables :
          /\ running' = is_vscode_running(procs)
          /\ pc' = IF is_vscode_running(procs) THEN "find_status" ELSE "not_running"
    /\ calls' = Append(calls, Call("psutil.process_iter", "", << >>, "done"))
    /\ UNCHANGED << Env, status_output, retcode, all_window_titles, workspace_titles,
                    workspace_title_set, title, reusable_window_exists, printed,
                    crash, exit_code >>

\* mutant: the not-running branch launches with the reuse flag
NotRunningLaunch_ReuseFlag ==
    /\ pc = "not_running"
    /\ files_to_open /= << >>
    /\ Launch("--reuse-window", "NOT_RUNNING_EXIT")
    /\ UNCHANGED << Env, running, status_output, retcode, all_window_titles,
                    workspace_titles, workspace_title_set, title,
                    reusable_window_exists, printed >>

\* main, lines 213-215 and 218
NotRunningLaunch ==
    /\ pc = "not_running"
    /\ files_to_open /= << >>
    /\ Launch("--new-window", "NOT_RUNNING_EXIT")
    /\ UNCHANGED << Env, running, status_output, retcode, all_window_titles,
                    workspace_titles, workspace_title_set, title,
                    reusable_window_exists, printed >>

\* main, lines 216-218
NotRunningPrint ==
    /\ pc = "not_running"
    /\ files_to_open = << >>
    /\ printed' = Append(printed, "VSCode is not running.")
    /\ pc' = "NOT_RUNNING_EXIT"
    /\ exit_code' = 0
    /\ UNCHANGED << Env, running, status_output, retcode, all_window_titles,
                    workspace_titles, workspace_title_set, title,
                    reusable_window_exists, calls, crash >>

\* mutant: the return code of the status command is not looked at
RunStatusCommand_IgnoresRetcode ==
    /\ pc = "find_status"
    /\ \E r \in { [how |-> "exit 0", out |-> code_status, rc |-> 0],
                  [how |-> "exit 1", out |-> code_status, rc |-> 1],
                  [how |-> "not found", out |-> << >>, rc |-> 127],
                  [how |-> "error", out |-> << >>, rc |-> 1] } :
          /\ status_output' = r.out
          /\ retcode' = r.rc
          /\ calls' = Append(calls, Call("code", "--status", << >>, r.how))
          /\ pc' = "enum"
    /\ reusable_window_exists' = FALSE
    /\ UNCHANGED << Env, running, all_window_titles, workspace_titles,
                    workspace_title_set, title, printed, crash, exit_code >>

\* run_command("code --status") and lines 66-69.  A command that ran gives its
\* output and return code; FileNotFoundError gives ("", ..., 127); any other
\* exception gives ("", ..., 1).
RunStatusCommand ==
    /\ pc = "find_status"
    /\ \E r \in { [how |-> "exit 0", out |-> code_status, rc |-> 0],
                  [how |-> "exit 1", out |-> code_status, rc |-> 1],
                  [how |-> "not found", out |-> << >>, rc |-> 127],
                  [how |-> "error", out |-> << >>, rc |-> 1] } :
          /\ status_output' = r.out
          /\ retcode' = r.rc
          /\ calls' = Append(calls, Call("code", "--status", << >>, r.how))
          /\ pc' = IF r.rc /= 0 THEN "decide" ELSE "enum"
    /\ reusable_window_exists' = FALSE
    /\ UNCHANGED << Env, running, all_window_titles, workspace_titles,
                    workspace_title_set, title, printed, crash, exit_code >>

\* line 71
EnumWindows ==
    /\ pc = "enum"
    /\ all_window_titles' = get_vscode_window_names_cg(window_list)
    /\ calls' = Append(calls, Call("CGWindowListCopyWindowInfo", "", << >>, "done"))
    /\ pc' = "parse"
    /\ UNCHANGED << Env, running, status_output, retcode, workspace_titles,
                    workspace_title_set, title, reusable_window_exists, printed,
                    crash, exit_code >>

\* lines 73-87
ParseStatus ==
    /\ pc = "parse"
    /\ workspace_titles' = ParseWorkspaceTitles(status_output)
    /\ pc' = "sort"
    /\ UNCHANGED << Env, running, status_output, retcode, all_window_titles,
                    workspace_title_set, title, reusable_window_exists, calls,
                    printed, crash, exit_code >>

\* lines 89-93: sorted() of the enumerator's False raises TypeError
SortTitles ==
    /\ pc = "sort"
    /\ IF all_window_titles.is_list
       THEN /\ all_window_titles' = [is_list |-> TRUE,
                                     items |-> Sorted(all_window_titles.items)]
            /\ workspace_titles' = Sorted(workspace_titles)
            /\ workspace_title_set' = Range(workspace_titles)
            /\ pc' = "classify"
            /\ UNCHANGED << crash, exit_code >>
       ELSE /\ pc' = "crashed"
            /\ crash' = "TypeError"
            /\ exit_code' = 1
            /\ UNCHANGED << all_window_titles, workspace_titles, workspace_title_set >>
    /\ UNCHANGED << Env, running, status_output, retcode, title,
                    reusable_window_exists, calls, printed >>

\* lines 99-109 and the assignment of line 220
Classify ==
    /\ pc = "classify"
    /\ LET r == FindReusable(all_window_titles.items, workspace_title_set, title)
       IN  /\ reusable_window_exists' = r.found
           /\ title' = r.title
    /\ pc' = "decide"
    /\ UNCHANGED << Env, running, status_output, retcode, all_window_titles,
                    workspace_titles, workspace_title_set, calls, printed, crash,
                    exit_code >>

\* lines 222-227
QueryOnly ==
    /\ pc = "decide"
    /\ files_to_open = << >>
    /\ printed' = Append(printed,
                         IF reusable_window_exists
                         THEN "A reusable non-workspace VSCode window was found."
                         ELSE "No reusable non-workspace VSCode window was found.")
    /\ pc' = "QUERY_ONLY_EXIT"
    /\ exit_code' = 0
    /\ UNCHANGED << Env, running, status_output, retcode, all_window_titles,
                    workspace_titles, workspace_title_set, title,
                    reusable_window_exists, calls, crash >>

\* lines 230-235: activate_vscode() activates the application when
\* runningApplicationsWithBundleIdentifier_ finds it
ActivateForReuse ==
    /\ pc = "decide"
    /\ files_to_open /= << >>
    /\ reusable_window_exists
    /\ printed' = Append(printed, "Opening files in a reused VSCode window: ")
    /\ \E apps \in BOOLEAN :
          calls' = calls
                   \o << Call("runningApplicationsWithBundleIdentifier_", "", << >>, "done") >>
                   \o (IF apps THEN << Call("activateWithOptions_", "", << >>, "done") >>
                       ELSE << >>)
    /\ pc' = "reuse_launch"
    /\ UNCHANGED << Env, running, status_output, retcode, all_window_titles,
                    workspace_titles, workspace_title_set, title,
                    reusable_window_exists, crash, exit_code >>

\* lines 236 and 244
LaunchReuse ==
    /\ pc = "reuse_launch"
    /\ Launch("--reuse-window", "LAUNCH_REUSE")
    /\ UNCHANGED << Env, running, status_output, retcode, all_window_titles,
                    workspace_titles, workspace_title_set, title,
                    reusable_window_exists, printed >>

\* mutant: the query-only exit is missing, so an empty file list reaches the launch
LaunchNew_NoFilesCheck ==
    /\ pc = "decide"
    /\ ~reusable_window_exists
    /\ printed' = Append(printed, "Opening files in a new VSCode window: ")
    /\ Launch("--new-window", "LAUNCH_NEW")
    /\ UNCHANGED << Env, running, status_output, retcode, all_window_titles,
                    workspace_titles, workspace_title_set, title,
                    reusable_window_exists >>

\* lines 237-244
LaunchNew ==
    /\ pc = "decide"
    /\ files_to_open /= << >>
    /\ ~reusable_window_exists
    /\ printed' = Append(printed, "Opening files in a new VSCode window: ")
    /\ Launch("--new-window", "LAUNCH_NEW")
    /\ UNCHANGED << Env, running, status_output, retcode, all_window_titles,
                    workspace_titles, workspace_title_set, title,
                    reusable_window_exists >>

Next ==
    \/ CheckRunning
    \/ NotRunningLaunch
    \/ NotRunningPrint
    \/ RunStatusCommand
    \/ EnumWindows
    \/ ParseStatus
    \/ SortTitles
    \/ Classify
    \/ QueryOnly
    \/ ActivateForReuse
    \/ LaunchReuse
    \/ LaunchNew

Spec == Init /\ [][Next]_vars

SpecParse == InitParse /\ [][Next]_vars

SpecClassify == InitClassify /\ [][Next]_vars

----------------------------------------------------------------------------
(* What the claims speak about *)

Ended == pc \in Terminal \cup { "crashed" }

IsLaunch(c) == c.cmd = "code" /\ c.flag \in { "--new-window", "--reuse-window" }

IsNewLaunch(c) == c.cmd = "code" /\ c.flag = "--new-window"

IsReuseLaunch(c) == c.cmd = "code" /\ c.flag = "--reuse-window"

Launches == SelectSeq(calls, IsLaunch)

NewLaunches == SelectSeq(calls, IsNewLaunch)

ReuseLaunches == SelectSeq(calls, IsReuseLaunch)

Called(cmd) == \E i \in 1..Len(calls) : calls[i].cmd = cmd

StatusCalled == \E i \in 1..Len(calls) : calls[i].cmd = "code" /\ calls[i].flag = "--status"

Activated ==
    Called("runningApplicationsWithBundleIdentifier_") \/ Called("activateWithOptions_")

CommandNotFound == \E i \in 1..Len(calls) : calls[i].result = "not found"

LaunchNotFound ==
    \E i \in 1..Len(calls) : IsLaunch(calls[i]) /\ calls[i].result = "not found"

StatusLines ==
    { "VSCode is not running.",
      "A reusable non-workspace VSCode window was found.",
      "No reusable non-workspace VSCode window was found." }

\* the status command succeeded and the parsing loop has run
Parsed == retcode = 0 /\ pc \notin { "enum", "parse" }

\* the classifying loop has run to its return
Classified ==
    /\ retcode = 0
    /\ pc \in { "decide", "reuse_launch", "crashed" } \cup Terminal
    /\ crash /= "TypeError"

\* the titles of the editor's on-screen windows, as a set
OnScreenTitles ==
    { WindowName(window_list[i]) :
        i \in { k \in 1..Len(window_list) : IsVscodeWindow(window_list[k]) } }

\* the set the parser is said to build: the trimmed titles of the lines that
\* have the window shape and come after the first marker line
TitlesAfterFirstMarker(text) ==
    LET lines == SplitLines(text)
        markers == { i \in 1..Len(lines) : Contains(lines[i], Marker) }
    IN  IF markers = {} THEN {}
        ELSE { Strip(PatternSearch(lines[i]).group) :
                 i \in { k \in 1..Len(lines) :
                           k > Min(markers) /\ PatternSearch(lines[k]).matched } }

----------------------------------------------------------------------------
(* The claims *)

\* C1: every run ends in one of the four terminal states with exit code 0,
\* whatever the process scan, the status command, the window enumerator
\* (zero matching windows included) and the exit code of the launched editor
\* CLI were.  (Runs in which the editor CLI itself was not found are left out:
\* they are C9's.)
C1_EveryRunExitsZero ==
    (Ended /\ ~LaunchNotFound) => (pc \in Terminal /\ exit_code = 0)

\* C2: when the scan reports not-running and files are supplied, the run makes
\* the "new window" launch exactly once, with the files, never the "reuse
\* window" launch, and never runs the status command, the window enumerator or
\* the activation.
C2_NotRunningLaunchesNewWindowOnce ==
    (pc /= "main" /\ ~running /\ files_to_open /= << >>) =>
        /\ ReuseLaunches = << >>
        /\ ~StatusCalled
        /\ ~Called("CGWindowListCopyWindowInfo")
        /\ ~Activated
        /\ Len(NewLaunches) <= 1
        /\ Ended => /\ Len(NewLaunches) = 1
                    /\ NewLaunches[1].files = files_to_open

C2_Witness ==
    /\ pc = "NOT_RUNNING_EXIT"
    /\ ~running
    /\ files_to_open /= << >>
    /\ Len(NewLaunches) = 1

\* C3: with no files, no launch and no activation is ever performed; all the
\* run prints is one status line ("not running", or whether a reusable window
\* exists, as the classifier said).
C3_QueryOnlyNeverLaunches ==
    files_to_open = << >> =>
        /\ Launches = << >>
        /\ ~Activated
        /\ pc \notin { "reuse_launch", "LAUNCH_REUSE", "LAUNCH_NEW" }
        /\ Len(printed) <= 1
        /\ Range(printed) \subseteq StatusLines
        /\ pc = "NOT_RUNNING_EXIT" => printed = << "VSCode is not running." >>
        /\ pc = "QUERY_ONLY_EXIT" =>
              printed = << IF reusable_window_exists
                           THEN "A reusable non-workspace VSCode window was found."
                           ELSE "No reusable non-workspace VSCode window was found." >>

C3_Witness ==
    /\ files_to_open = << >>
    /\ running
    /\ pc = "QUERY_ONLY_EXIT"
    /\ reusable_window_exists
    /\ Len(printed) = 1

\* C4: when the editor is running and files are supplied, the run makes
\* exactly one launch, with the reuse flag iff the classifier returned true
\* and with the new-window flag otherwise; the launch gets the file list
\* unchanged; the activation happens only on the reuse path, before the launch.
C4_RunningLaunchesExactlyOnce ==
    (Ended /\ running /\ files_to_open /= << >>) =>
        /\ Len(Launches) = 1
        /\ Launches[1].files = files_to_open
        /\ Launches[1].flag = (IF reusable_window_exists THEN "--reuse-window"
                                                         ELSE "--new-window")
        /\ Activated <=> reusable_window_exists
        /\ Activated => IsReuseLaunch(calls[Len(calls)])

\* C5: a status command that returns 127 or any other non-zero code makes
\* find_reusable_window_from_status return false without raising, without
\* parsing and without asking the window enumerator; with files the run then
\* makes the "new window" launch and never the reuse launch.
C5_StatusFailureMeansNoReuse ==
    (retcode /= -1 /\ retcode /= 0) =>
        /\ ~reusable_window_exists
        /\ crash /= "TypeError"
        /\ ~Called("CGWindowListCopyWindowInfo")
        /\ workspace_titles = << >>
        /\ workspace_title_set = {}
        /\ pc \in { "decide", "QUERY_ONLY_EXIT", "LAUNCH_NEW", "crashed" }
        /\ ReuseLaunches = << >>
        /\ ~Activated
        /\ (Ended /\ files_to_open /= << >>) =>
              /\ Len(NewLaunches) = 1
              /\ NewLaunches[1].files = files_to_open

C5_Witness ==
    /\ retcode = 127
    /\ files_to_open /= << >>
    /\ pc = "LAUNCH_NEW"
    /\ Len(NewLaunches) = 1

\* C6: the workspace title set the parser builds is exactly the set of the
\* trimmed titles of the lines with the `| Window (<title>)` shape that come
\* strictly after the first line containing "Workspace Stats:" (the empty set
\* when there is no such line).
C6_TitlesAreThoseAfterFirstMarker ==
    Parsed => Range(workspace_titles) = TitlesAfterFirstMarker(status_output)

\* C7: given a non-empty collection of on-screen titles, the classifier
\* returns true iff some on-screen title is neither in the workspace set nor
\* "Welcome", whatever the order and the duplicates of the collection.
C7_ClassifierIsSetDifference ==
    Classified =>
        /\ OnScreenTitles /= {}
        /\ reusable_window_exists <=>
              \E t \in OnScreenTitles : t \notin workspace_title_set /\ t /= Welcome

C7_Witness ==
    /\ Classified
    /\ OnScreenTitles = { << "a" >>, Welcome }
    /\ workspace_title_set = {}
    /\ reusable_window_exists

\* C8: with the editor running, the status command successful and no matching
\* on-screen window, the classifier returns false and the run goes on to the
\* query-only print or the "new window" launch.
C8_NoWindowsMeansNotReusable ==
    (Ended /\ running /\ retcode = 0 /\ OnScreenTitles = {} /\ ~LaunchNotFound) =>
        /\ pc \in { "QUERY_ONLY_EXIT", "LAUNCH_NEW" }
        /\ ~reusable_window_exists

\* C9: a command that is not found (the status command or the editor CLI of
\* the final launch) never crashes the run: the run ends in a terminal state
\* with exit code 0.
C9_CommandNotFoundIsNotFatal ==
    (Ended /\ CommandNotFound) => (pc \in Terminal /\ exit_code = 0)

\* C10, as claimed: there are inputs (on-screen windows and workspace titles)
\* for which the title that makes the classifier return true is a member of
\* the workspace title set.  The classifying loop is run, from the present
\* value of its loop variable, on every input of the classifier specification.
C10_CollidingTitleIsReported ==
    \E wl \in SeqsUpTo(ScreenWindows, MaxScreen), ws \in SeqsUpTo(Titles, MaxWorkspaces) :
        LET names == get_vscode_window_names_cg(wl)
            r == FindReusable(Sorted(names.items), Range(ws), title)
        IN  names.is_list /\ r.found /\ r.title \in Range(ws)

\* C10, amended: whenever the classifier returns true, the title that made it
\* do so is an on-screen title that is not in the workspace title set and is
\* not "Welcome"; an on-screen title equal to a workspace-backed title never
\* counts as reusable.
C10_ReportedTitleIsNotWorkspaceBacked ==
    (Classified /\ reusable_window_exists) =>
        /\ title \in OnScreenTitles
        /\ title \notin workspace_title_set
        /\ title /= Welcome

C10_Witness ==
    /\ Classified
    /\ reusable_window_exists
    /\ OnScreenTitles \cap workspace_title_set /= {}
    /\ title \notin workspace_title_set

====
